---- MODULE Spec2Model ----
(***************************************************************************)
(* Reference manager: projects of BibTeX references, duplicate-key         *)
(* resolution, import / export / merge and file attachment.                *)
(*                                                                         *)
(* Strings are TLA+ strings; an Optional[str] is <<>> (None) or <<s>>.     *)
(* A Python dict is a sequence of [k, v] pairs in insertion order.         *)
(* A BibTeX file, as seen through bibtexparser, is either unparsable or a  *)
(* sequence of entries [ID, ENTRYTYPE, fields]; what write_bibtex_file     *)
(* hands to bibtexparser.dump is the db.entries list, and that list is     *)
(* what the model records as written by a call (last.wrote).               *)
(***************************************************************************)
EXTENDS Integers, Sequences, FiniteSets, TLC

VARIABLES
    active_project,   \* ProjectManager.active_project: None or <<Project>>
    disk,             \* base_dir/<name>/project.json, per project name
    copied,           \* attachment files present under base_dir/<name>/
    last,             \* the last call: its arguments, its outcome, what it wrote
    refsIn,           \* resolver call: the caller's list as it was given
    refsArg,          \* resolver call: the caller's list after the call
    refsOut,          \* resolver call: None or <<the list returned>>
    fmt               \* formatter or round-trip call on refsIn: None or <<the call>>

vars == <<active_project, disk, copied, last, refsIn, refsArg, refsOut, fmt>>

(***************************************************************************)
(* Bounds                                                                  *)
(***************************************************************************)
MaxEntries == 2       \* entries in one BibTeX file
MaxRefs == 3          \* references held by one project
MaxList == 3          \* length of a list given to the resolver harness
MaxMerge == 2         \* files listed in one merge
MaxMergeEntries == 1  \* entries in one merged file
MaxCite == 2          \* length of a list given to the formatters

None == <<>>
Some(x) == <<x>>

ProjNames == {"p"}
BibPaths == {"f1.bib", "f2.bib"}     \* files that are merged
ImportPaths == {"f1.bib"}            \* files that are imported into a project
MergeKeyPool == {"a1"}               \* keys of the entries of merged files
OutPaths == {"out.bib"}
PdfPaths == {"doc.pdf", "missing.pdf"}
ExistingPdfs == {"doc.pdf"}
KeyPool == {"a", "a_1"}
TypePool == {"article"}
FieldsPool == { [author |-> "Doe, J.", year |-> "2021", title |-> "A Study of Things!!"],
                [year |-> "2020"] }
\* style strings given to the citation formatters
StylePool == {"cite", "citep", "citet", "footcite", "textcite", "parencite", ""}
\* an empty fields dict
NoFields == [n \in {} |-> ""]
\* the fields of the References given to the formatters and the round trip
FormatFieldsPool ==
    { NoFields,
      [author |-> "Doe, J.", year |-> "2021", title |-> "A Study of Things!!"],
      [author |-> "Smith, J. and Doe, A.", year |-> "2020"],
      [author |-> "Smith, J. and Doe, A. and Lee, B.", year |-> "2020", title |-> ""],
      [author |-> "Sandberg, K.", title |-> "One  two"],
      [author |-> "Anderson, J.", year |-> "2020"],
      [ID |-> "b", year |-> "2020"] }
\* the fields of the entries that go into a project
ProjectFieldsPool == { [author |-> "Doe, J.", year |-> "2021", title |-> "A Study of Things!!"] }

(***************************************************************************)
(* Generic helpers                                                         *)
(***************************************************************************)
SeqsUpTo(S, n) == UNION { [1..m -> S] : m \in 0..n }

RECURSIVE Ascending(_)
\* the members of a finite set of integers, in increasing order
Ascending(S) ==
    IF S = {} THEN <<>>
    ELSE LET m == CHOOSE x \in S : \A y \in S : x <= y
         IN  <<m>> \o Ascending(S \ {m})

\* 0-based position of x in the sequence s (Python enumerate)
PosIn(s, x) == (CHOOSE i \in 1..Len(s) : s[i] = x) - 1

(***************************************************************************)
(* models.py: Reference                                                    *)
(***************************************************************************)
Reference(key, entry_type, fields, original_key, file_path) ==
    [key |-> key, entry_type |-> entry_type, fields |-> fields,
     original_key |-> original_key, file_path |-> file_path]

FieldGet(fields, name, default) ==
    IF name \in DOMAIN fields THEN fields[name] ELSE default

\* character classes of str.isalnum / str.isspace over the characters in use
AlnumChars == {"a","b","c","d","e","f","g","h","i","j","k","l","m","n","o","p","q",
               "r","s","t","u","v","w","x","y","z",
               "A","B","C","D","E","F","G","H","I","J","K","L","M","N","O","P","Q",
               "R","S","T","U","V","W","X","Y","Z",
               "0","1","2","3","4","5","6","7","8","9"}
SpaceChars == {" "}

CharAt(s, i) == SubSeq(s, i, i)

\* s.split(sep)[0]: the text before the first occurrence of sep (all of s if none)
FirstPiece(s, sep) ==
    LET n == Len(sep)
        hits == { i \in 1..(Len(s) - n + 1) : SubSeq(s, i, i + n - 1) = sep }
    IN  IF hits = {} THEN s
        ELSE SubSeq(s, 1, (CHOOSE i \in hits : \A j \in hits : i <= j) - 1)

RECURSIVE LStrip(_)
LStrip(s) == IF s # "" /\ CharAt(s, 1) \in SpaceChars THEN LStrip(Tail(s)) ELSE s

RECURSIVE RStrip(_)
RStrip(s) == IF s # "" /\ CharAt(s, Len(s)) \in SpaceChars
             THEN RStrip(SubSeq(s, 1, Len(s) - 1)) ELSE s

Strip(s) == RStrip(LStrip(s))

RECURSIVE KeepAlnumSpace(_)
\* "".join(c for c in title if c.isalnum() or c.isspace())
KeepAlnumSpace(s) ==
    IF s = "" THEN ""
    ELSE (IF CharAt(s, 1) \in AlnumChars \cup SpaceChars THEN CharAt(s, 1) ELSE "")
         \o KeepAlnumSpace(Tail(s))

RECURSIVE SplitWs(_, _)
\* str.split(): the maximal runs of non-space characters; cur is the run being read
SplitWs(s, cur) ==
    IF s = "" THEN (IF cur = "" THEN <<>> ELSE <<cur>>)
    ELSE IF CharAt(s, 1) \in SpaceChars
         THEN (IF cur = "" THEN <<>> ELSE <<cur>>) \o SplitWs(Tail(s), "")
         ELSE SplitWs(Tail(s), cur \o CharAt(s, 1))

RECURSIVE Join(_, _)
Join(sep, words) ==
    IF words = <<>> THEN ""
    ELSE IF Len(words) = 1 THEN words[1]
         ELSE words[1] \o sep \o Join(sep, Tail(words))

\* Reference.get_standardized_filename, as a function of the fields it reads
StandardizedFilename(fields) ==
    LET author == FieldGet(fields, "author", "Unknown")
        year == FieldGet(fields, "year", "XXXX")
        title == FieldGet(fields, "title", "Untitled")
        last_name == Strip(FirstPiece(FirstPiece(author, "and"), ","))
        clean_title == KeepAlnumSpace(title)
        all_words == SplitWs(clean_title, "")
        title_words == SubSeq(all_words, 1, IF Len(all_words) < 3 THEN Len(all_words) ELSE 3)
        short_title == Join("_", title_words)
    IN  last_name \o "_" \o year \o "_" \o short_title \o ".pdf"

\* the filenames of the fields in use, computed once
StandardizedFilenames == { <<f, StandardizedFilename(f)>> : f \in FieldsPool }

\* Reference.get_standardized_filename
get_standardized_filename(ref) ==
    IF ref.fields \in FieldsPool
    THEN (CHOOSE p \in StandardizedFilenames : p[1] = ref.fields)[2]
    ELSE StandardizedFilename(ref.fields)

(***************************************************************************)
(* models.py: Project (references is a dict: pairs [k, v] in insertion     *)
(* order)                                                                  *)
(***************************************************************************)
Project(name, references) == [name |-> name, references |-> references]

DictKeys(d) == { d[i].k : i \in 1..Len(d) }

DictValues(d) == [i \in 1..Len(d) |-> d[i].v]

DictGet(d, k) == (CHOOSE i \in 1..Len(d) : d[i].k = k)

\* d[k] = v
DictSet(d, k, v) ==
    IF k \in DictKeys(d)
    THEN [i \in 1..Len(d) |-> IF d[i].k = k THEN [k |-> k, v |-> v] ELSE d[i]]
    ELSE Append(d, [k |-> k, v |-> v])

\* del d[k]
DictDel(d, k) ==
    LET idx == Ascending({ i \in 1..Len(d) : d[i].k # k })
    IN  [j \in 1..Len(idx) |-> d[idx[j]]]

\* Project.add_reference
add_reference(references, reference) == DictSet(references, reference.key, reference)

\* Project.remove_reference
remove_reference(references, key) ==
    IF key \in DictKeys(references) THEN DictDel(references, key) ELSE references

\* Project.get_reference: None or <<Reference>>
get_reference(references, key) ==
    IF key \in DictKeys(references) THEN Some(references[DictGet(references, key)].v) ELSE None

(***************************************************************************)
(* bibtex_parser.py                                                        *)
(***************************************************************************)
Entry(id, entry_type, fields) == [ID |-> id, ENTRYTYPE |-> entry_type, fields |-> fields]

\* what a path holds when it is read: it parses to a sequence of entries, or
\* open / bibtexparser.load raises
Unparsable == [ok |-> FALSE, entries |-> <<>>]

\* parse_bibtex_file, for a file that parses to entries
parse_bibtex_file(file_path, entries) ==
    [i \in 1..Len(entries) |->
        Reference(entries[i].ID, entries[i].ENTRYTYPE, entries[i].fields,
                  Some(entries[i].ID), Some(file_path))]

\* the dict {'ID': ref.key, 'ENTRYTYPE': ref.entry_type, **ref.fields}: a field
\* named ID or ENTRYTYPE takes the place of the Reference's key or entry_type
EntryDict(ref) ==
    Entry(FieldGet(ref.fields, "ID", ref.key),
          FieldGet(ref.fields, "ENTRYTYPE", ref.entry_type),
          [n \in DOMAIN ref.fields \ {"ID", "ENTRYTYPE"} |-> ref.fields[n]])

\* write_bibtex_file: the db.entries list handed to bibtexparser.dump
write_bibtex_file(references) ==
    [i \in 1..Len(references) |-> EntryDict(references[i])]

\* key_map[k]: the positions holding key k, in order of occurrence
KeyMap(references, k) ==
    LET HasKey(i) == references[i].key = k
    IN  SelectSeq([i \in 1..Len(references) |-> i], HasKey)

\* find_duplicate_keys: the keys with more than one position, each with its positions
find_duplicate_keys(references) ==
    LET keys == { references[i].key : i \in 1..Len(references) }
        dupkeys == { k \in keys : Len(KeyMap(references, k)) > 1 }
    IN  [k \in dupkeys |-> KeyMap(references, k)]

\* variant: the first member of a duplicate group is renamed as well
IsRenamedFromFirst(i) == i >= 0

\* the i-th member of a duplicate group (enumerate index i) is renamed
IsRenamed(i) == i > 0

\* variant: suffixes counted from 2
NewKeyOffByOne(key, i) == key \o "_" \o ToString(i + 1)

\* f"{key}_{i}"
NewKey(key, i) == key \o "_" \o ToString(i)

\* the in-place update of one member of a duplicate group
Rename(ref, key, i) ==
    [ref EXCEPT !.original_key = Some(ref.key), !.key = NewKey(key, i)]

\* variant: original_key is recorded for every Reference, renamed or not
ResolveRecordingEveryOriginal(references) ==
    LET duplicates == find_duplicate_keys(references)
    IN  [j \in 1..Len(references) |->
            LET key == references[j].key
            IN  IF key \in DOMAIN duplicates /\ IsRenamed(PosIn(duplicates[key], j))
                THEN Rename(references[j], key, PosIn(duplicates[key], j))
                ELSE [references[j] EXCEPT !.original_key = Some(key)]]

\* resolve_duplicate_keys: the objects of the list after the call, position by
\* position (the returned list holds the same objects as the caller's list)
resolve_duplicate_keys(references) ==
    LET duplicates == find_duplicate_keys(references)
    IN  [j \in 1..Len(references) |->
            LET key == references[j].key
            IN  IF key \in DOMAIN duplicates /\ IsRenamed(PosIn(duplicates[key], j))
                THEN Rename(references[j], key, PosIn(duplicates[key], j))
                ELSE references[j]]

(***************************************************************************)
(* citation.py: CitationFormatter                                          *)
(***************************************************************************)
UpperChars == "ABCDEFGHIJKLMNOPQRSTUVWXYZ"
LowerChars == "abcdefghijklmnopqrstuvwxyz"

RECURSIVE Lower(_)
\* str.lower over the characters in use
Lower(s) ==
    IF s = "" THEN ""
    ELSE LET c == CharAt(s, 1)
             hit == { i \in 1..Len(UpperChars) : CharAt(UpperChars, i) = c }
         IN  (IF hit = {} THEN c ELSE CharAt(LowerChars, CHOOSE i \in hit : TRUE))
             \o Lower(Tail(s))

\* sub in s
Contains(s, sub) ==
    \E i \in 1..(Len(s) - Len(sub) + 1) : SubSeq(s, i, i + Len(sub) - 1) = sub

RECURSIVE Split(_, _)
\* s.split(sep): the pieces of s between the occurrences of sep, left to right
Split(s, sep) ==
    IF ~Contains(s, sep) THEN <<s>>
    ELSE LET first == FirstPiece(s, sep)
         IN  <<first>> \o Split(SubSeq(s, Len(first) + Len(sep) + 1, Len(s)), sep)

\* CitationFormatter.format_citation
format_citation(reference, style) ==
    IF style = "cite" THEN "\\cite{" \o reference.key \o "}"
    ELSE IF style = "citep" THEN "\\citep{" \o reference.key \o "}"
    ELSE IF style = "citet" THEN "\\citet{" \o reference.key \o "}"
    ELSE IF style = "footcite" THEN "\\footcite{" \o reference.key \o "}"
    ELSE IF style = "textcite" THEN "\\textcite{" \o reference.key \o "}"
    ELSE "\\cite{" \o reference.key \o "}"

\* variant: the style string is used as the macro name whatever it is
FormatMultipleWithAnyStyle(references, style) ==
    LET keys == [i \in 1..Len(references) |-> references[i].key]
    IN  "\\" \o style \o "{" \o Join(",", keys) \o "}"

\* CitationFormatter.format_multiple_citations
format_multiple_citations(references, style) ==
    LET keys == [i \in 1..Len(references) |-> references[i].key]
        keys_str == Join(",", keys)
    IN  IF style = "cite" THEN "\\cite{" \o keys_str \o "}"
        ELSE IF style = "citep" THEN "\\citep{" \o keys_str \o "}"
        ELSE IF style = "citet" THEN "\\citet{" \o keys_str \o "}"
        ELSE IF style = "footcite" THEN "\\footcite{" \o keys_str \o "}"
        ELSE IF style = "textcite" THEN "\\textcite{" \o keys_str \o "}"
        ELSE "\\cite{" \o keys_str \o "}"

RECURSIVE FieldLines(_, _)
\* for field, value in reference.fields.items(): entry += "  field = {value},\n"
\* (names: the names of the dict in insertion order)
FieldLines(fields, names) ==
    IF names = <<>> THEN ""
    ELSE "  " \o Head(names) \o " = {" \o fields[Head(names)] \o "},\n"
         \o FieldLines(fields, Tail(names))

\* CitationFormatter.format_bibtex_entry; names is the insertion order of
\* reference.fields
format_bibtex_entry(reference, names) ==
    LET entry_type == Lower(reference.entry_type)
        key == reference.key
    IN  "@" \o entry_type \o "{" \o key \o ",\n" \o FieldLines(reference.fields, names) \o "}"

\* CitationFormatter.get_formatted_author_year
get_formatted_author_year(reference) ==
    LET author == FieldGet(reference.fields, "author", "Unknown")
        year == FieldGet(reference.fields, "year", "n.d.")
        last_name == Strip(FirstPiece(FirstPiece(author, "and"), ","))
    IN  IF Contains(author, "and")
        THEN LET authors == Split(author, "and")
                 author_count == Len(authors)
                 last_names == [i \in 1..Len(authors) |-> Strip(FirstPiece(authors[i], ","))]
             IN  IF author_count = 2
                 THEN last_names[1] \o " and " \o last_names[2] \o " (" \o year \o ")"
                 ELSE last_name \o " et al. (" \o year \o ")"
        ELSE last_name \o " (" \o year \o ")"

(***************************************************************************)
(* Outcome of the last call                                                *)
(***************************************************************************)
\* what a call found when it was called
Snapshot == [active_project |-> active_project, disk |-> disk, copied |-> copied]

\* the call, its arguments (key, path, the entries that were parsed), how it
\* ended, the list it returned (<<>> for a call that returns None or raises),
\* the db.entries it wrote to path (None if it
\* opened no file for writing), the active project it found when it was called
\* (found: <<active_project>> for import, export, attach and merge) and, for a
\* call that raised, the whole state it found (pre)
Outcome(op, status, key, path, entries, ret, wrote, found, pre) ==
    [op |-> op, status |-> status, key |-> key, path |-> path,
     entries |-> entries, ret |-> ret, wrote |-> wrote, found |-> found, pre |-> pre]

(***************************************************************************)
(* file_manager.py                                                         *)
(***************************************************************************)
BaseDir == "references"

\* str(project_dir / std_filename)
DestPath(name, std_filename) == BaseDir \o "/" \o name \o "/" \o std_filename

\* FileManager.save_project: project.json holds the references dict
save_project(d, project) == [d EXCEPT ![project.name] = Some(project.references)]

(***************************************************************************)
(* project_manager.py, app.py: the operations                              *)
(***************************************************************************)
\* ProjectManager.create_project
CreateProject(name) ==
    /\ disk' = save_project(disk, Project(name, <<>>))
    /\ last' = Outcome("create_project", "ok", name, "", <<>>, <<>>, None, None, None)
    /\ UNCHANGED <<active_project, copied, refsIn, refsArg, refsOut, fmt>>

\* ProjectManager.load_project
LoadProject(name) ==
    /\ IF disk[name] = None
       THEN /\ last' = Outcome("load_project", "none", name, "", <<>>, <<>>, None, None, None)
            /\ UNCHANGED active_project
       ELSE /\ active_project' = Some(Project(name, disk[name][1]))
            /\ last' = Outcome("load_project", "ok", name, "", <<>>, <<>>, None, None, None)
    /\ UNCHANGED <<disk, copied, refsIn, refsArg, refsOut, fmt>>

\* ProjectManager.delete_project
DeleteProject(name) ==
    /\ active_project' = IF active_project # None /\ active_project[1].name = name
                         THEN None ELSE active_project
    /\ disk' = [disk EXCEPT ![name] = None]
    /\ copied' = { c \in copied : c.name # name }
    /\ last' = Outcome("delete_project", "ok", name, "", <<>>, <<>>, None, None, None)
    /\ UNCHANGED <<refsIn, refsArg, refsOut, fmt>>

\* variant: no filter on existing_keys
NewReferencesUnfiltered(resolved, existing_keys) == resolved

\* the members of resolved_references whose key is not in existing_keys
NewReferences(resolved, existing_keys) ==
    LET IsNew(ref) == ref.key \notin existing_keys
    IN  SelectSeq(resolved, IsNew)

RECURSIVE AddAll(_, _)
\* for ref in new_references: project.add_reference(ref)
AddAll(references, new_references) ==
    IF new_references = <<>> THEN references
    ELSE AddAll(add_reference(references, Head(new_references)), Tail(new_references))

\* The references dict of the project after import_bibtex has run on parsed
\* entries. resolve_duplicate_keys updates Reference objects in place and the
\* first positions of all_references are the project's own objects, so the
\* dict's values are read back from the resolved list.
ImportedReferences(references, parsed) ==
    LET all_references == DictValues(references) \o parsed
        resolved_references == resolve_duplicate_keys(all_references)
        existing_keys == DictKeys(references)
        new_references == NewReferences(resolved_references, existing_keys)
        held == [i \in 1..Len(references) |->
                    [k |-> references[i].k, v |-> resolved_references[i]]]
    IN  [new |-> new_references, references |-> AddAll(held, new_references)]

\* ProjectManager.import_bibtex
ImportBibtex(file_path, content) ==
    /\ UNCHANGED <<copied, refsIn, refsArg, refsOut, fmt>>
    /\ IF active_project = None
       THEN /\ last' = Outcome("import_bibtex", "ValueError", "", file_path, <<>>, <<>>,
                               None, Some(active_project), Some(Snapshot))
            /\ UNCHANGED <<active_project, disk>>
       ELSE IF ~content.ok
       THEN /\ last' = Outcome("import_bibtex", "ParseError", "", file_path, <<>>, <<>>,
                               None, Some(active_project), Some(Snapshot))
            /\ UNCHANGED <<active_project, disk>>
       ELSE LET project == active_project[1]
                parsed == parse_bibtex_file(file_path, content.entries)
                imp == ImportedReferences(project.references, parsed)
                after == Project(project.name, imp.references)
            IN  /\ Len(imp.references) <= MaxRefs
                /\ active_project' = Some(after)
                /\ disk' = save_project(disk, after)
                /\ last' = Outcome("import_bibtex", "ok", "", file_path, content.entries,
                                   imp.new, None, Some(active_project), None)

\* variant: the output file is opened for writing before the project is checked
ExportOpeningFirst(file_path) ==
    /\ UNCHANGED <<active_project, disk, copied, refsIn, refsArg, refsOut, fmt>>
    /\ IF active_project = None
       THEN last' = Outcome("export_bibtex", "ValueError", "", file_path, <<>>, <<>>,
                            Some(<<>>), Some(active_project), Some(Snapshot))
       ELSE last' = Outcome("export_bibtex", "ok", "", file_path, <<>>, <<>>,
                            Some(write_bibtex_file(DictValues(active_project[1].references))),
                            Some(active_project), None)

\* ProjectManager.export_bibtex
ExportBibtex(file_path) ==
    /\ UNCHANGED <<active_project, disk, copied, refsIn, refsArg, refsOut, fmt>>
    /\ IF active_project = None
       THEN last' = Outcome("export_bibtex", "ValueError", "", file_path, <<>>, <<>>,
                            None, Some(active_project), Some(Snapshot))
       ELSE last' = Outcome("export_bibtex", "ok", "", file_path, <<>>, <<>>,
                            Some(write_bibtex_file(DictValues(active_project[1].references))),
                            Some(active_project), None)

\* ProjectManager.add_reference_file with FileManager.add_reference_file
AddReferenceFile(reference_key, file_path) ==
    /\ UNCHANGED <<refsIn, refsArg, refsOut, fmt>>
    /\ IF active_project = None
       THEN /\ last' = Outcome("add_reference_file", "ValueError", reference_key, file_path,
                               <<>>, <<>>, None, Some(active_project), Some(Snapshot))
            /\ UNCHANGED <<active_project, disk, copied>>
       ELSE IF get_reference(active_project[1].references, reference_key) = None
       THEN /\ last' = Outcome("add_reference_file", "ValueError", reference_key, file_path,
                               <<>>, <<>>, None, Some(active_project), Some(Snapshot))
            /\ UNCHANGED <<active_project, disk, copied>>
       ELSE IF file_path \notin ExistingPdfs
       THEN /\ last' = Outcome("add_reference_file", "IOError", reference_key, file_path,
                               <<>>, <<>>, None, Some(active_project), Some(Snapshot))
            /\ UNCHANGED <<active_project, disk, copied>>
       ELSE LET project == active_project[1]
                reference == get_reference(project.references, reference_key)[1]
                std_filename == get_standardized_filename(reference)
                dest_path == DestPath(project.name, std_filename)
                i == DictGet(project.references, reference_key)
                after == Project(project.name,
                            [project.references EXCEPT ![i].v.file_path = Some(dest_path)])
            IN  /\ copied' = copied \cup {[name |-> project.name, file |-> std_filename]}
                /\ active_project' = Some(after)
                /\ disk' = save_project(disk, after)
                /\ last' = Outcome("add_reference_file", "ok", reference_key, file_path,
                                   <<>>, <<>>, None, Some(active_project), None)

\* ProjectManager.save_project
SaveProject ==
    /\ disk' = IF active_project # None THEN save_project(disk, active_project[1]) ELSE disk
    /\ last' = Outcome("save_project", "ok", "", "", <<>>, <<>>, None, None, None)
    /\ UNCHANGED <<active_project, copied, refsIn, refsArg, refsOut, fmt>>

\* app.py on_delete_reference: Project.remove_reference, then save_project
RemoveReference(key) ==
    /\ active_project # None
    /\ LET project == active_project[1]
           after == Project(project.name, remove_reference(project.references, key))
       IN  /\ active_project' = Some(after)
           /\ disk' = save_project(disk, after)
    /\ last' = Outcome("remove_reference", "ok", key, "", <<>>, <<>>, None, None, None)
    /\ UNCHANGED <<copied, refsIn, refsArg, refsOut, fmt>>

RECURSIVE ParseAll(_, _)
\* all_references of merge_bibtex_files: the parsed files, concatenated
ParseAll(file_paths, contents) ==
    IF file_paths = <<>> THEN <<>>
    ELSE parse_bibtex_file(Head(file_paths), contents[Head(file_paths)].entries)
         \o ParseAll(Tail(file_paths), contents)

\* the listed files parsed before the first one that fails to parse
ParsedBeforeFailure(file_paths, contents) ==
    LET bad == CHOOSE i \in 1..Len(file_paths) :
                   /\ ~contents[file_paths[i]].ok
                   /\ \A j \in 1..(i - 1) : contents[file_paths[j]].ok
    IN  ParseAll(SubSeq(file_paths, 1, bad - 1), contents)

\* variant: what was parsed so far is written when a later file fails
MergeWritingPartial(file_paths, contents, output_path) ==
    /\ UNCHANGED <<active_project, disk, copied, refsIn, refsArg, refsOut, fmt>>
    /\ IF \E i \in 1..Len(file_paths) : ~contents[file_paths[i]].ok
       THEN LET parsed == ParsedBeforeFailure(file_paths, contents)
            IN  last' = Outcome("merge_bibtex_files", "ParseError", "", output_path,
                                write_bibtex_file(parsed), <<>>,
                                Some(write_bibtex_file(resolve_duplicate_keys(parsed))),
                                Some(active_project), Some(Snapshot))
       ELSE LET all_references == ParseAll(file_paths, contents)
                resolved_references == resolve_duplicate_keys(all_references)
            IN  last' = Outcome("merge_bibtex_files", "ok", "", output_path,
                                write_bibtex_file(all_references), <<>>,
                                Some(write_bibtex_file(resolved_references)), Some(active_project), None)

\* BibTexManager.merge_bibtex_files
MergeBibtexFiles(file_paths, contents, output_path) ==
    /\ UNCHANGED <<active_project, disk, copied, refsIn, refsArg, refsOut, fmt>>
    /\ IF \E i \in 1..Len(file_paths) : ~contents[file_paths[i]].ok
       THEN LET parsed == ParsedBeforeFailure(file_paths, contents)
            IN  last' = Outcome("merge_bibtex_files", "ParseError", "", output_path,
                                write_bibtex_file(parsed), <<>>, None, Some(active_project), Some(Snapshot))
       ELSE LET all_references == ParseAll(file_paths, contents)
                resolved_references == resolve_duplicate_keys(all_references)
            IN  last' = Outcome("merge_bibtex_files", "ok", "", output_path,
                                write_bibtex_file(all_references), <<>>,
                                Some(write_bibtex_file(resolved_references)), Some(active_project), None)

\* BibTexManager.resolve_duplicate_keys called on a list of References
Resolve ==
    /\ refsOut = None
    /\ refsOut' = Some(resolve_duplicate_keys(refsIn))
    /\ refsArg' = resolve_duplicate_keys(refsIn)
    /\ UNCHANGED <<active_project, disk, copied, last, refsIn, fmt>>

\* a formatter or round-trip call on refsIn: the function, the position of the
\* Reference it was given (0: the whole list), the style, the insertion order
\* of the Reference's fields, and what it returned
Call(op, i, style, names, out) ==
    [op |-> op, i |-> i, style |-> style, names |-> names, out |-> out]

\* CitationFormatter.format_citation(refsIn[i], style)
FormatCitation(i, style) ==
    /\ fmt = None
    /\ fmt' = Some(Call("format_citation", i, style, <<>>, format_citation(refsIn[i], style)))
    /\ UNCHANGED <<active_project, disk, copied, last, refsIn, refsArg, refsOut>>

\* CitationFormatter.format_multiple_citations(refsIn, style)
FormatMultipleCitations(style) ==
    /\ fmt = None
    /\ fmt' = Some(Call("format_multiple_citations", 0, style, <<>>,
                        format_multiple_citations(refsIn, style)))
    /\ UNCHANGED <<active_project, disk, copied, last, refsIn, refsArg, refsOut>>

\* CitationFormatter.format_bibtex_entry(refsIn[i]), the fields dict of
\* refsIn[i] having been filled in the order names
FormatBibtexEntry(i, names) ==
    /\ fmt = None
    /\ fmt' = Some(Call("format_bibtex_entry", i, "", names,
                        format_bibtex_entry(refsIn[i], names)))
    /\ UNCHANGED <<active_project, disk, copied, last, refsIn, refsArg, refsOut>>

\* CitationFormatter.get_formatted_author_year(refsIn[i])
GetFormattedAuthorYear(i) ==
    /\ fmt = None
    /\ fmt' = Some(Call("get_formatted_author_year", i, "", <<>>,
                        get_formatted_author_year(refsIn[i])))
    /\ UNCHANGED <<active_project, disk, copied, last, refsIn, refsArg, refsOut>>

\* refsIn[i].get_standardized_filename()
GetStandardizedFilename(i) ==
    /\ fmt = None
    /\ fmt' = Some(Call("get_standardized_filename", i, "", <<>>,
                        get_standardized_filename(refsIn[i])))
    /\ UNCHANGED <<active_project, disk, copied, last, refsIn, refsArg, refsOut>>

\* write_bibtex_file(refsIn, file_path), then parse_bibtex_file(file_path); the
\* file holds the db.entries it was given
WriteThenParse(file_path) ==
    /\ fmt = None
    /\ fmt' = Some(Call("write_then_parse", 0, "", <<>>,
                        parse_bibtex_file(file_path, write_bibtex_file(refsIn))))
    /\ UNCHANGED <<active_project, disk, copied, last, refsIn, refsArg, refsOut>>

(***************************************************************************)
(* Specifications                                                          *)
(***************************************************************************)
\* what a file holds when it is read: Unparsable, or up to n entries of pool
Contents(keys, n) ==
    {Unparsable} \cup
    { [ok |-> TRUE, entries |-> es] :
        es \in SeqsUpTo({ Entry(k, t, f) : k \in keys, t \in TypePool, f \in ProjectFieldsPool }, n) }

ImportContents == Contents(KeyPool, MaxEntries)

MergeContents == Contents(MergeKeyPool, MaxMergeEntries)

HeldKeys == IF active_project = None THEN {} ELSE DictKeys(active_project[1].references)

InitProgram ==
    /\ active_project = None
    /\ disk = [n \in ProjNames |-> None]
    /\ copied = {}
    /\ last = [op |-> "init", status |-> "ok", key |-> "", path |-> "",
               entries |-> <<>>, ret |-> <<>>, wrote |-> None, found |-> None,
               pre |-> None]

Init ==
    /\ InitProgram
    /\ refsIn = <<>>
    /\ refsArg = <<>>
    /\ refsOut = None
    /\ fmt = None

Next ==
    \/ \E name \in ProjNames : CreateProject(name)
    \/ \E name \in ProjNames : LoadProject(name)
    \/ \E name \in ProjNames : DeleteProject(name)
    \/ SaveProject
    \/ \E file_path \in ImportPaths, content \in ImportContents : ImportBibtex(file_path, content)
    \/ \E file_path \in OutPaths : ExportBibtex(file_path)
    \/ \E key \in KeyPool \cup HeldKeys, file_path \in PdfPaths : AddReferenceFile(key, file_path)
    \/ \E key \in HeldKeys : RemoveReference(key)

Spec == Init /\ [][Next]_vars

\* importing into a project and merging files
NextMerge ==
    \/ \E name \in ProjNames : CreateProject(name)
    \/ \E name \in ProjNames : LoadProject(name)
    \/ \E file_path \in ImportPaths, content \in ImportContents : ImportBibtex(file_path, content)
    \/ \E file_paths \in SeqsUpTo(BibPaths, MaxMerge), output_path \in OutPaths :
          \E contents \in [{ file_paths[i] : i \in 1..Len(file_paths) } -> MergeContents] :
              MergeBibtexFiles(file_paths, contents, output_path)

SpecMerge == Init /\ [][NextMerge]_vars

\* the resolver applied to every list of References up to MaxList
ResolverPool ==
    { Reference(k, t, f, o, None) : k \in KeyPool, t \in TypePool, f \in FieldsPool,
                                    o \in {None} \cup { Some(kk) : kk \in KeyPool } }

InitResolve ==
    /\ InitProgram
    /\ refsIn \in SeqsUpTo(ResolverPool, MaxList)
    /\ refsArg = refsIn
    /\ refsOut = None
    /\ fmt = None

NextResolve == Resolve

SpecResolve == InitResolve /\ [][NextResolve]_vars

\* the References given to the formatters and the round trip
FormatPool ==
    { Reference("a", "article", f, None, None) : f \in FormatFieldsPool }
    \cup { Reference(k, t, [year |-> "2020", author |-> "Doe, J."], None, None) :
             k \in KeyPool, t \in {"article", "Article"} }

\* the orders in which the names of a fields dict can have been inserted
Orders(fields) ==
    LET names == DOMAIN fields
    IN  { o \in [1..Cardinality(names) -> names] :
            \A i, j \in 1..Cardinality(names) : i # j => o[i] # o[j] }

InitFormat ==
    /\ InitProgram
    /\ refsIn \in SeqsUpTo(FormatPool, MaxCite)
    /\ refsArg = refsIn
    /\ refsOut = None
    /\ fmt = None

NextFormat ==
    \/ \E i \in 1..Len(refsIn), style \in StylePool : FormatCitation(i, style)
    \/ \E style \in StylePool : FormatMultipleCitations(style)
    \/ \E i \in 1..Len(refsIn) : \E names \in Orders(refsIn[i].fields) : FormatBibtexEntry(i, names)
    \/ \E i \in 1..Len(refsIn) : GetFormattedAuthorYear(i)
    \/ \E i \in 1..Len(refsIn) : GetStandardizedFilename(i)
    \/ \E file_path \in OutPaths : WriteThenParse(file_path)

SpecFormat == InitFormat /\ [][NextFormat]_vars

(***************************************************************************)
(* Properties                                                              *)
(***************************************************************************)
\* the references dict of the active project (empty when there is none)
Refs == IF active_project = None THEN <<>> ELSE active_project[1].references

\* the last call was an import_bibtex that returned
ImportReturned == last.op = "import_bibtex" /\ last.status = "ok"

\* the references dict the last call found
PreRefs == IF last.found = None \/ last.found[1] = None THEN <<>>
           ELSE last.found[1][1].references

\* number of References of refs keyed k, and number of those before position j
Count(refs, k) == Cardinality({ i \in 1..Len(refs) : refs[i].key = k })
Rank(refs, j) == Cardinality({ i \in 1..(j - 1) : refs[i].key = refs[j].key })

Suffixed(k, n) == k \o "_" \o ToString(n)

\* C1: every entry of the active project's references mapping is stored under
\* a map key equal to the Reference's own key, whatever operations were run.
C1_MapKeyIsReferenceKey ==
    \A i \in 1..Len(Refs) : Refs[i].k = Refs[i].v.key

\* C1 witness: a project holding an entry that an import renamed, next to the
\* entry it collided with, and an attached file.
C1_Witness ==
    /\ Len(Refs) >= 2
    /\ \E i, j \in 1..Len(Refs) :
          /\ Refs[i].v.original_key = Some(Refs[j].k)
          /\ Refs[i].k # Refs[j].k
    /\ copied # {}

\* C2: when n >= 2 References of the input share key k, the result has the
\* References in their original order, the first of them still keyed k and the
\* r-th later one keyed k_r with original_key k.
C2_DuplicatesSuffixedInOrder ==
    refsOut # None =>
        LET out == refsOut[1]
        IN  /\ Len(out) = Len(refsIn)
            /\ \A j \in 1..Len(refsIn) :
                  Count(refsIn, refsIn[j].key) >= 2 =>
                      /\ out[j].entry_type = refsIn[j].entry_type
                      /\ out[j].fields = refsIn[j].fields
                      /\ out[j].file_path = refsIn[j].file_path
                      /\ IF Rank(refsIn, j) = 0
                         THEN out[j].key = refsIn[j].key
                         ELSE /\ out[j].key = Suffixed(refsIn[j].key, Rank(refsIn, j))
                              /\ out[j].original_key = Some(refsIn[j].key)

\* C2 witness: the resolver has run on a list in which three References share
\* a key and differ in content.
C2_Witness ==
    /\ refsOut # None
    /\ \E j \in 1..Len(refsIn) : Count(refsIn, refsIn[j].key) >= 3
    /\ \E i, j \in 1..Len(refsIn) :
          refsIn[i].key = refsIn[j].key /\ refsIn[i].fields # refsIn[j].fields

\* C3: after import_bibtex has returned, every Reference the project held when
\* it was called is still in place and unchanged, and every parsed entry whose
\* key the project held came out of the resolution renamed key_n, with
\* original_key set to the key it had.
C3_ImportKeepsHeldReferences ==
    ImportReturned =>
        LET parsed == parse_bibtex_file(last.path, last.entries)
            resolved == resolve_duplicate_keys(DictValues(PreRefs) \o parsed)
        IN  /\ Len(Refs) >= Len(PreRefs)
            /\ \A i \in 1..Len(PreRefs) : Refs[i] = PreRefs[i]
            /\ \A j \in 1..Len(parsed) :
                  parsed[j].key \in DictKeys(PreRefs) =>
                      /\ resolved[Len(PreRefs) + j].original_key = Some(parsed[j].key)
                      /\ \E n \in 1..Len(resolved) :
                            resolved[Len(PreRefs) + j].key = Suffixed(parsed[j].key, n)

\* C3 witness: an import has returned a Reference renamed away from a key the
\* project held before the call, and the project still holds that key.
C3_Witness ==
    /\ ImportReturned
    /\ \E i \in 1..Len(last.ret) :
          /\ last.ret[i].original_key # Some(last.ret[i].key)
          /\ last.ret[i].original_key[1] \in DictKeys(PreRefs)
          /\ last.ret[i].original_key[1] \in DictKeys(Refs)

\* C4: the list returned by import_bibtex is exactly what the call inserted:
\* each returned Reference is the one stored under its key, each key the call
\* added belongs to a returned Reference, and the list is as long as the
\* project grew.
C4_ReturnedIsInserted ==
    ImportReturned =>
        /\ \A i \in 1..Len(last.ret) :
              get_reference(Refs, last.ret[i].key) = Some(last.ret[i])
        /\ \A k \in DictKeys(Refs) \ DictKeys(PreRefs) :
              \E i \in 1..Len(last.ret) : last.ret[i].key = k
        /\ Len(last.ret) = Len(Refs) - Len(PreRefs)

\* the keys the project held when the call before this step's call was made
KeysBefore == DictKeys(PreRefs)

\* C5: importing the same file of n distinctly keyed entries twice in a row,
\* into a project that held none of the keys ki nor ki_1: the first import
\* returns References keyed k1..kn, the second returns n References keyed
\* ki_1 with original_key ki, and the project has grown by 2n.
C5_SecondImportRenamesAll ==
    [][ ( /\ ImportReturned
          /\ last'.op = "import_bibtex" /\ last'.status = "ok"
          /\ last'.path = last.path
          /\ last'.entries = last.entries
          /\ \A i, j \in 1..Len(last.entries) :
                i # j => last.entries[i].ID # last.entries[j].ID
          /\ \A j \in 1..Len(last.entries) :
                /\ last.entries[j].ID \notin KeysBefore
                /\ Suffixed(last.entries[j].ID, 1) \notin KeysBefore )
        =>
          LET es == last.entries
              n == Len(es)
          IN  /\ Len(last.ret) = n
              /\ \A j \in 1..n : last.ret[j].key = es[j].ID
              /\ Len(last'.ret) = n
              /\ \A j \in 1..n :
                    /\ last'.ret[j].key = Suffixed(es[j].ID, 1)
                    /\ last'.ret[j].original_key = Some(es[j].ID)
              /\ Len(active_project'[1].references) = Len(PreRefs) + 2 * n
      ]_vars

\* C6: a Reference whose key occurs once in the input is returned as it was, at
\* the same position; a list without duplicate keys is returned unchanged.
C6_UniqueKeysUntouched ==
    refsOut # None =>
        LET out == refsOut[1]
        IN  /\ Len(out) = Len(refsIn)
            /\ \A j \in 1..Len(refsIn) :
                  Count(refsIn, refsIn[j].key) = 1 => out[j] = refsIn[j]
            /\ (\A j \in 1..Len(refsIn) : Count(refsIn, refsIn[j].key) = 1) => out = refsIn

\* C6 witness: the resolver has run on a list that holds a duplicated key and,
\* after it, a Reference with a key of its own and no original_key.
C6_Witness ==
    /\ refsOut # None
    /\ \E i, j \in 1..Len(refsIn) :
          /\ i < j
          /\ Count(refsIn, refsIn[i].key) >= 2
          /\ Count(refsIn, refsIn[j].key) = 1
          /\ refsIn[j].original_key = None

\* C7: a Reference held by the project has no file_path unless a file was
\* attached to it, in which case file_path is the copy's destination.
C7_FilePathOnlyByAttach ==
    \A i \in 1..Len(Refs) :
        Refs[i].v.file_path # None =>
            \E c \in copied : Refs[i].v.file_path = Some(DestPath(c.name, c.file))

\* C8: after a call has ended in a parse failure, the active project, its
\* persisted copy and the attachments are as the call found them and no output
\* was written: for import_bibtex and, whichever listed file fails, for
\* merge_bibtex_files.
C8_ParseFailureHasNoEffect ==
    last.status = "ParseError" =>
        /\ last.op \in {"import_bibtex", "merge_bibtex_files"}
        /\ Snapshot = last.pre[1]
        /\ last.wrote = None

\* C8 witness: a merge failed on a later file after entries of an earlier file
\* had been parsed, while a project with References was active.
C8_Witness ==
    /\ last.op = "merge_bibtex_files" /\ last.status = "ParseError"
    /\ Len(last.entries) > 0
    /\ Len(Refs) > 0

\* C9: import_bibtex, export_bibtex and add_reference_file called without an
\* active project, and add_reference_file called with a key the project does
\* not hold, end in a validation error; after a call has ended so, the project,
\* its persisted copy and the attachments are as the call found them and
\* nothing was written.
C9_ValidationFailureHasNoEffect ==
    /\ ( /\ last.op \in {"import_bibtex", "export_bibtex", "add_reference_file"}
         /\ last.found[1] = None )
       => last.status = "ValueError"
    /\ ( /\ last.op = "add_reference_file"
         /\ last.key \notin DictKeys(PreRefs) )
       => last.status = "ValueError"
    /\ last.status = "ValueError" =>
          /\ Snapshot = last.pre[1]
          /\ last.wrote = None

\* C9 witness: add_reference_file was refused for a key the active project does
\* not hold, the project holding other References.
C9_Witness ==
    /\ last.op = "add_reference_file" /\ last.status = "ValueError"
    /\ Len(Refs) > 0
    /\ last.key \notin DictKeys(Refs)

\* the last formatter or round-trip call was op
Called(op) == fmt # None /\ fmt[1].op = op

\* the (key, entry_type, fields) triples of a sequence of References
Triples(refs) ==
    { <<refs[i].key, refs[i].entry_type, refs[i].fields>> : i \in 1..Len(refs) }

\* C11: parse_bibtex_file applied to the file written by write_bibtex_file(R)
\* yields References with the same set of (key, entry_type, fields) triples
\* as R, for every sequence R of References.
C11_RoundTripKeepsTriples ==
    Called("write_then_parse") => Triples(fmt[1].out) = Triples(refsIn)

\* the author-year text by the " and " separator: Last_i is the text before the
\* first comma of the i-th " and "-separated author, trimmed
AuthorYearBySeparator(fields) ==
    LET author == FieldGet(fields, "author", "Unknown")
        year == FieldGet(fields, "year", "n.d.")
        authors == Split(author, " and ")
        Last(i) == Strip(FirstPiece(authors[i], ","))
    IN  IF Len(authors) = 1 THEN Last(1) \o " (" \o year \o ")"
        ELSE IF Len(authors) = 2 THEN Last(1) \o " and " \o Last(2) \o " (" \o year \o ")"
        ELSE Last(1) \o " et al. (" \o year \o ")"

\* C12: get_formatted_author_year counts the authors by the exact separator
\* " and " and renders "{Last1} ({year})", "{Last1} and {Last2} ({year})" or
\* "{Last1} et al. ({year})", with "Unknown" and "n.d." for a missing author
\* and year, for every author string.
C12_AuthorYearCountsSeparator ==
    Called("get_formatted_author_year") =>
        fmt[1].out = AuthorYearBySeparator(refsIn[fmt[1].i].fields)

\* "{LastName}_{Year}_{ShortTitle}.pdf" with LastName taken from the first
\* " and "-separated author
FilenameBySeparator(fields) ==
    LET author == FieldGet(fields, "author", "Unknown")
        year == FieldGet(fields, "year", "XXXX")
        title == FieldGet(fields, "title", "Untitled")
        last_name == Strip(FirstPiece(Split(author, " and ")[1], ","))
        words == SplitWs(KeepAlnumSpace(title), "")
        short == SubSeq(words, 1, IF Len(words) < 3 THEN Len(words) ELSE 3)
    IN  last_name \o "_" \o year \o "_" \o Join("_", short) \o ".pdf"

\* C13: get_standardized_filename returns "{LastName}_{Year}_{ShortTitle}.pdf":
\* LastName the text before the first comma of the first " and "-separated
\* author, trimmed ("Unknown" if absent), Year the year field ("XXXX" if
\* absent), ShortTitle at most the first three words of the title cleaned of
\* characters that are neither alphanumeric nor whitespace, joined by "_".
C13_FilenameFromFirstAuthor ==
    Called("get_standardized_filename") =>
        fmt[1].out = FilenameBySeparator(refsIn[fmt[1].i].fields)

\* C14: format_bibtex_entry renders the opening tag with the entry_type as
\* stored (no case change) and the key, one line "name = {value}," per field
\* in the order the fields were provided and a closing brace, and leaves the
\* Reference as it was.
C14_EntryBlockKeepsEntryType ==
    Called("format_bibtex_entry") =>
        LET reference == refsIn[fmt[1].i]
        IN  /\ fmt[1].out = "@" \o reference.entry_type \o "{" \o reference.key \o ",\n"
                            \o FieldLines(reference.fields, fmt[1].names) \o "}"
            /\ refsArg = refsIn

\* the macro names format_citation and format_multiple_citations know
KnownStyles == {"cite", "citep", "citet", "footcite", "textcite"}

\* C15: format_multiple_citations returns "\m{k1,...,kn}", keys comma-joined in
\* the given order, m the style if it is a known one and cite otherwise;
\* format_citation(ref, s) returns what format_multiple_citations([ref], s)
\* returns.
C15_CitationMacroAndKeys ==
    LET m == IF fmt[1].style \in KnownStyles THEN fmt[1].style ELSE "cite"
        keys == [i \in 1..Len(refsIn) |-> refsIn[i].key]
    IN  /\ Called("format_multiple_citations") =>
              fmt[1].out = "\\" \o m \o "{" \o Join(",", keys) \o "}"
        /\ Called("format_citation") =>
              /\ fmt[1].out = "\\" \o m \o "{" \o refsIn[fmt[1].i].key \o "}"
              /\ fmt[1].out = format_multiple_citations(<<refsIn[fmt[1].i]>>, fmt[1].style)

\* C15 witness: format_multiple_citations was called with a style it does not
\* know on two References with different keys.
C15_Witness ==
    /\ Called("format_multiple_citations")
    /\ fmt[1].style \notin KnownStyles
    /\ Len(refsIn) >= 2
    /\ refsIn[1].key # refsIn[2].key

\* C16: the sequence returned by resolve_duplicate_keys has pairwise distinct
\* keys: find_duplicate_keys finds nothing in it and a second resolution pass
\* leaves it as it is.
C16_ResolvedKeysDistinct ==
    refsOut # None =>
        LET out == refsOut[1]
        IN  /\ \A i, j \in 1..Len(out) : i # j => out[i].key # out[j].key
            /\ DOMAIN find_duplicate_keys(out) = {}
            /\ resolve_duplicate_keys(out) = out

\* C17: after import_bibtex has returned for a file of m entries and a project
\* that held p References, the project holds p + m References and each parsed
\* entry is stored under its original key or a suffixed key.
C17_NoImportedEntryLost ==
    ImportReturned =>
        /\ Len(Refs) = Len(PreRefs) + Len(last.entries)
        /\ \A j \in 1..Len(last.entries) :
              \E i \in 1..Len(Refs) :
                  /\ Refs[i].v.entry_type = last.entries[j].ENTRYTYPE
                  /\ Refs[i].v.fields = last.entries[j].fields
                  /\ Refs[i].v.original_key = Some(last.entries[j].ID)
                  /\ \/ Refs[i].k = last.entries[j].ID
                     \/ \E n \in 1..Len(Refs) : Refs[i].k = Suffixed(last.entries[j].ID, n)

\* C18: resolve_duplicate_keys does not modify its input: after the call every
\* Reference of the caller's list has the key and original_key it had before.
C18_ResolveLeavesInputAlone ==
    refsOut # None =>
        /\ Len(refsArg) = Len(refsIn)
        /\ \A j \in 1..Len(refsIn) :
              /\ refsArg[j].key = refsIn[j].key
              /\ refsArg[j].original_key = refsIn[j].original_key

====
